---- MODULE Spec2Model ----
(***************************************************************************)
(* A model of jax/_src/linear_util.py: the single-assignment stores        *)
(* (Store, EqualStore), the transformation stack (WrappedFun) with its     *)
(* apply / base call / unwind protocol (call_wrapped), the memoization     *)
(* decorator (cache) and merge_linear_aux.                                 *)
(*                                                                         *)
(* Python values are modelled as integers.  An exception is modelled by    *)
(* its message (StoreException) or by a name for the place that raised     *)
(* it; NoExc means that nothing was raised.                                *)
(***************************************************************************)
EXTENDS Integers, Sequences, FiniteSets, TLC

VARIABLES
  cells,      \* SpecStore: the Store / EqualStore objects under test
  op,         \* SpecStore: the last operation performed and its outcome
  firstVal,   \* SpecStore: per cell, the first value stored since its reset
  fun,        \* SpecCall: the WrappedFun under test
  wrapOrder,  \* SpecCall: the transformations wrapped onto fun, first to last
  cw,         \* SpecCall: the frame of call_wrapped and the heap of stores
  stacks,     \* SpecCache: the WrappedFun objects created by the client
  mheap,      \* SpecCache: the heap of stores
  fun_caches, \* SpecCache: the WeakKeyDictionary of the memoized function
  held,       \* SpecCache: the base computations the client still refers to
  memo,       \* SpecCache: the last memoized call and its outcome
  hist,       \* SpecCache: the memoized calls that invoked call and returned
  quota,      \* SpecCache: the stacks and memoized calls the client may still make
  memo_funs,  \* SpecClear: per memoized function made by cache(), its fun_caches
  cache_clearing_funs, \* SpecClear: the WeakSet of cache_clear functions
  book,       \* SpecClear: the keys the client expects to be cached, dropped, failed
  last        \* SpecClear, SpecBuild: the client's last operation and its outcome

storeVars == <<cells, op, firstVal>>
callVars == <<fun, wrapOrder, cw>>
cacheVars == <<stacks, mheap, fun_caches, held, memo, hist, quota>>
clientVars == <<memo_funs, cache_clearing_funs, book, last>>
vars == <<cells, op, firstVal, fun, wrapOrder, cw, stacks, mheap, fun_caches,
          held, memo, hist, quota, memo_funs, cache_clearing_funs, book, last>>

(***************************************************************************)
(* Bounds of the model.                                                    *)
(***************************************************************************)
MaxVal == 2      \* store values are 0..MaxVal (and an opaque one)
MaxArg == 3      \* the positional argument of a call is 0..MaxArg
MaxWraps == 2    \* transformations wrapped onto one WrappedFun
MaxStacks == 2   \* WrappedFun objects created by the client of the cache
MaxMemos == 2    \* memoized calls made by the client of the cache

(***************************************************************************)
(* Exceptions.                                                             *)
(***************************************************************************)
NoExc == "none"
StoreOccupied == "Store occupied"
StoreEmpty == "Store empty"
StoreNotEqual == "Store occupied with not-equal value"
NeitherOccupied == "neither store occupied"
BothOccupied == "both stores occupied"

StoreException ==
  {StoreOccupied, StoreEmpty, StoreNotEqual, NeitherOccupied, BothOccupied}

(***************************************************************************)
(* Store and EqualStore.  The content of a store is <<>> when it holds     *)
(* _EMPTY_STORE_VALUE and <<v>> when it holds v.  An EqualStore is the     *)
(* Store it wraps plus its class.                                          *)
(***************************************************************************)
EMPTY_STORE_VALUE == <<>>

\* Values whose == has no truth value (bool(a == b) raises), such as arrays.
Opaque == {-1}

StoreVals == 0..MaxVal \cup Opaque

NewStore == [cls |-> "Store", val |-> EMPTY_STORE_VALUE]

NewEqualStore == [cls |-> "EqualStore", val |-> EMPTY_STORE_VALUE]

\* Store.__bool__
Store_bool(st) == st.val # EMPTY_STORE_VALUE

\* A store method's outcome: the store afterwards, the exception raised (or
\* NoExc) and the value returned (as a sequence of length 0 or 1).
Outcome(st, exc, ret) == [st |-> st, exc |-> exc, ret |-> ret]

\* Mutant of Store_store: overwrites an occupied store.
Store_store_overwrite(st, val) == Outcome([st EXCEPT !.val = <<val>>], NoExc, <<>>)

\* Store.store
Store_store(st, val) ==
  IF st.val # EMPTY_STORE_VALUE
    THEN Outcome(st, StoreOccupied, <<>>)
    ELSE Outcome([st EXCEPT !.val = <<val>>], NoExc, <<>>)

\* Store.reset and EqualStore.reset
Store_reset(st) == Outcome([st EXCEPT !.val = EMPTY_STORE_VALUE], NoExc, <<>>)

\* Store.val and EqualStore.val
Store_val(st) ==
  IF ~Store_bool(st)
    THEN Outcome(st, StoreEmpty, <<>>)
    ELSE Outcome(st, NoExc, st.val)

\* bool(self._store._val == val) raises
EqRaises(a, b) == a \in Opaque \/ b \in Opaque

\* Mutant of EqualStore_store: an unequal second value is accepted silently.
EqualStore_store_lenient(st, val) ==
  LET r == Store_store(st, val) IN
  IF r.exc = NoExc THEN r ELSE Outcome(st, NoExc, <<>>)

\* EqualStore.store
EqualStore_store(st, val) ==
  LET r == Store_store(st, val) IN
  IF r.exc = NoExc THEN r
  ELSE IF EqRaises(st.val[1], val) THEN r
  ELSE IF st.val[1] = val THEN Outcome(st, NoExc, <<>>)
  ELSE Outcome(st, StoreNotEqual, <<>>)

\* out_store.store(val), dispatched on the class of the store
StoreInto(st, val) ==
  IF st.cls = "EqualStore" THEN EqualStore_store(st, val) ELSE Store_store(st, val)

(***************************************************************************)
(* merge_linear_aux.  An accessor is the thunk `lambda: out_store.val` of  *)
(* transformation_with_aux; r1 and r2 are the outcomes of calling aux1 and *)
(* aux2.  The result is the exception raised, or (flag, value).            *)
(***************************************************************************)
MergeResult(exc, flag, ret) == [exc |-> exc, flag |-> flag, ret |-> ret]

\* Mutant of merge_linear_aux: both occupied returns the first.
merge_linear_aux_first(r1, r2) ==
  IF r1.exc \in StoreException
    THEN IF r2.exc \in StoreException
           THEN MergeResult(NeitherOccupied, FALSE, <<>>)
           ELSE MergeResult(NoExc, FALSE, r2.ret)
    ELSE MergeResult(NoExc, TRUE, r1.ret)

merge_linear_aux(r1, r2) ==
  IF r1.exc \in StoreException
    THEN IF r2.exc \in StoreException
           THEN MergeResult(NeitherOccupied, FALSE, <<>>)
           ELSE MergeResult(NoExc, FALSE, r2.ret)
    ELSE IF r2.exc \in StoreException
           THEN MergeResult(NoExc, TRUE, r1.ret)
           ELSE MergeResult(BothOccupied, FALSE, <<>>)

(***************************************************************************)
(* The store objects of SpecStore and the record of the last operation on  *)
(* them.                                                                   *)
(***************************************************************************)
CellIds == {1, 2}

OpRec(name, c, d, arg, before, exc, flag, ret) ==
  [name |-> name, c |-> c, d |-> d, arg |-> arg, before |-> before,
   exc |-> exc, flag |-> flag, ret |-> ret]

(***************************************************************************)
(* WrappedFun.  transforms is a sequence of entries (gen, gen_static_args), *)
(* stores the parallel sequence of out_stores: the index of a store in the *)
(* heap, or None.  params is the sorted tuple of (key, value) pairs.       *)
(***************************************************************************)
None == 0

WrappedFun(f, transforms, stores, params, in_type, debug_info) ==
  [f |-> f, transforms |-> transforms, stores |-> stores, params |-> params,
   in_type |-> in_type, debug_info |-> debug_info]

Entry(gen, gen_static_args) == [gen |-> gen, args |-> gen_static_args]

\* Mutant of wrap: the new transformation and its store are appended.
wrap_append(self, gen, gen_static_args, out_store) ==
  WrappedFun(self.f, Append(self.transforms, Entry(gen, gen_static_args)),
             Append(self.stores, out_store), self.params, None, None)

\* Mutant of wrap: the store of the new transformation is left out.
wrap_nostore(self, gen, gen_static_args, out_store) ==
  WrappedFun(self.f, <<Entry(gen, gen_static_args)>> \o self.transforms,
             self.stores, self.params, None, None)

\* WrappedFun.wrap
wrap(self, gen, gen_static_args, out_store) ==
  WrappedFun(self.f, <<Entry(gen, gen_static_args)>> \o self.transforms,
             <<out_store>> \o self.stores, self.params, None, None)

\* sorted(params.items()) for a dict given as its items in insertion order
\* (the keys are integers and distinct): insertion sort on the key.
RECURSIVE sorted(_)
sorted(items) ==
  IF items = <<>> THEN <<>>
  ELSE LET rest == sorted(Tail(items))
           x == Head(items)
           lo == SelectSeq(rest, LAMBDA y : y[1] < x[1])
           hi == SelectSeq(rest, LAMBDA y : ~(y[1] < x[1]))
       IN  lo \o <<x>> \o hi

\* wrap_init(f, params): params is <<>> for None and <<items>> for a dict
NoParams == <<>>

wrap_init(f, params) ==
  WrappedFun(f, <<>>, <<>>, IF params = NoParams THEN <<>> ELSE sorted(params[1]),
             None, None)

\* transformation(gen)(fun, *gen_static_args)
transformation(gen, fn, gen_static_args) == wrap(fn, gen, gen_static_args, None)

\* transformation_with_aux(gen)(fun, *gen_static_args, use_eq_store=...): the
\* new store is allocated at the end of the heap; out_thunk reads it.
transformation_with_aux(heap, gen, fn, gen_static_args, use_eq_store) ==
  LET out_store == Len(heap) + 1 IN
  [heap |-> Append(heap, IF ~use_eq_store THEN NewStore ELSE NewEqualStore),
   fun |-> wrap(fn, gen, gen_static_args, out_store),
   out_thunk |-> out_store]

\* out_thunk(): lambda: out_store.val
out_thunk(heap, out_store) == Store_val(heap[out_store])

AssertionError == "AssertionError"

\* The input types: None, well-formed ones and a malformed one, which
\* _check_input_type rejects.
WellFormedTypes == {1}

MalformedTypes == {2}

\* The outcome of annotate and add_debug_info: the WrappedFun returned, the
\* exception raised, and whether the result is a new object (or f itself).
Annotated(fn, exc, new) == [fun |-> fn, exc |-> exc, new |-> new]

\* annotate(f, in_type)
annotate(f, in_type) ==
  IF f.in_type # None THEN Annotated(f, AssertionError, FALSE)
  ELSE IF in_type = None THEN Annotated(f, NoExc, FALSE)
  ELSE IF in_type \notin WellFormedTypes THEN Annotated(f, AssertionError, FALSE)
  ELSE Annotated(WrappedFun(f.f, f.transforms, f.stores, f.params, in_type,
                            f.debug_info), NoExc, TRUE)

\* add_debug_info(f, debug_info)
add_debug_info(f, debug_info) ==
  IF f.debug_info # None THEN Annotated(f, AssertionError, FALSE)
  ELSE IF debug_info = None THEN Annotated(f, NoExc, FALSE)
  ELSE Annotated(WrappedFun(f.f, f.transforms, f.stores, f.params, f.in_type,
                            debug_info), NoExc, TRUE)

(***************************************************************************)
(* The generator functions used as transformations.  Each follows the      *)
(* protocol of the module docstring: it yields the rewritten (args,        *)
(* kwargs), receives the results and yields the rewritten results, with an *)
(* auxiliary output when it is wrapped by transformation_with_aux.  Each   *)
(* enters a context before its first yield and leaves it when it is        *)
(* resumed, when it raises and when it is closed (cw.counter counts the    *)
(* contexts entered and not left).  The positional arguments are one       *)
(* integer, the keyword arguments a function from keys to values.          *)
(*   double_args     doubles the argument                                  *)
(*   negate_result   negates the result; aux is abs(result)                *)
(*   add_static      adds its static argument to the argument and to the   *)
(*                   result                                                *)
(*   set_kwarg       passes keyword 1 with its static argument as value    *)
(*   raise_apply     raises before its first yield                         *)
(*   raise_unwind    raises when it is resumed                             *)
(***************************************************************************)
Gens ==
  {"double_args", "negate_result", "add_static", "set_kwarg", "raise_apply",
   "raise_unwind"}

\* The generators that yield (results, aux): wrapped by transformation_with_aux.
HasAux(gen) == gen = "negate_result"

ApplyError == "ApplyError"
UnwindError == "UnwindError"
BaseError == "BaseError"

Abs(x) == IF x < 0 THEN -x ELSE x

\* gen(*(gen_static_args + args), **kwargs) run to its first yield: next(gen)
GenNext(gen, static, args, kwargs) ==
  CASE gen = "double_args" -> [exc |-> NoExc, args |-> 2 * args, kwargs |-> kwargs]
    [] gen = "add_static" -> [exc |-> NoExc, args |-> args + static[1], kwargs |-> kwargs]
    [] gen = "set_kwarg" ->
         [exc |-> NoExc, args |-> args,
          kwargs |-> [k \in DOMAIN kwargs \cup {1} |->
                        IF k = 1 THEN static[1] ELSE kwargs[k]]]
    [] gen = "raise_apply" -> [exc |-> ApplyError, args |-> args, kwargs |-> kwargs]
    [] OTHER -> [exc |-> NoExc, args |-> args, kwargs |-> kwargs]

\* gen.send(ans): the rewritten result and, for a generator with auxiliary
\* output, the side value (a sequence of length 0 or 1)
GenSend(gen, static, ans) ==
  CASE gen = "negate_result" -> [exc |-> NoExc, ans |-> -ans, side |-> <<Abs(-ans)>>]
    [] gen = "add_static" -> [exc |-> NoExc, ans |-> ans + static[1], side |-> <<>>]
    [] gen = "raise_unwind" -> [exc |-> UnwindError, ans |-> ans, side |-> <<>>]
    [] OTHER -> [exc |-> NoExc, ans |-> ans, side |-> <<>>]

\* The base computations: inc is f(x, **kwargs) = x + 1, dec is
\* f(x, **kwargs) = x - 1, boom raises.
BaseFuns == {"inc", "dec", "boom"}

\* The function objects of the model, and id(f): a reference to the function
\* object f held in a value is modelled by a number that no computation of
\* the model yields.
FunObjects == <<"inc", "dec", "boom", "selfret", "rec">>

id(f) == 100 + (CHOOSE i \in DOMAIN FunObjects : FunObjects[i] = f)

\* The function objects the value v refers to.
RefsOf(v) == {FunObjects[i] : i \in {j \in DOMAIN FunObjects : id(FunObjects[j]) = v}}

\* The function objects that are part of a reference cycle: rec is a nested
\* function that calls itself through its closure cell.
Cyclic(f) == f = "rec"

\* self.f(*args, **kwargs).  selfret is a callable that returns itself; rec is
\* def rec(x): return x + 1 if x > 0 else rec(1).
CallF(f, args, kwargs) ==
  CASE f = "boom" -> [exc |-> BaseError, ans |-> 0]
    [] f = "dec" -> [exc |-> NoExc, ans |-> args - 1]
    [] f = "selfret" -> [exc |-> NoExc, ans |-> id(f)]
    [] f = "rec" -> [exc |-> NoExc, ans |-> IF args > 0 THEN args + 1 ELSE 2]
    [] OTHER -> [exc |-> NoExc, ans |-> args + 1]

\* dict(items): the dict of a tuple of (key, value) pairs
DictOf(items) ==
  [k \in {items[j][1] : j \in DOMAIN items} |->
     LET j == CHOOSE j \in DOMAIN items : items[j][1] = k IN items[j][2]]

\* Mutant of dict_update: on a key present in both, the static param wins.
dict_update_static(params, kwargs) ==
  LET d == DictOf(params) IN
  [k \in DOMAIN d \cup DOMAIN kwargs |->
     IF k \in DOMAIN d THEN d[k] ELSE kwargs[k]]

\* dict(self.params, **kwargs)
dict_update(params, kwargs) ==
  LET d == DictOf(params) IN
  [k \in DOMAIN d \cup DOMAIN kwargs |->
     IF k \in DOMAIN kwargs THEN kwargs[k] ELSE d[k]]

(***************************************************************************)
(* call_wrapped.  A frame holds the locals of one invocation (args,        *)
(* kwargs, ans, stack), the position in the code (pc, and i for the next   *)
(* transformation of the first loop), the state of each generator, the     *)
(* exception being raised, the heap of stores, and what can be observed    *)
(* from outside: the contexts entered and not left (counter), the          *)
(* arguments of the call (call), the arguments f received (fcall) and the  *)
(* phases run so far (log).                                                *)
(*   pc = "idle"      not called yet                                       *)
(*        "apply"     in the first loop (lines 183-186)                    *)
(*        "base"      about to call self.f (line 190)                      *)
(*        "unwind"    in the second loop (lines 202-215)                   *)
(*        "closing"   in a `while stack: close` loop (197-198, 210-211)    *)
(*        "returned"  returned ans to the caller (line 217)                *)
(*        "raised"    the exception exc has reached the caller             *)
(* The log holds an event per apply phase, base call, unwind phase, write  *)
(* of a side value and close, in the order they happened.                  *)
(***************************************************************************)
Min(a, b) == IF a < b THEN a ELSE b

\* zip(self.transforms, self.stores) stops at the shorter of the two
NumZip(self) == Min(Len(self.transforms), Len(self.stores))

Event(name, i, e) == [ev |-> name, i |-> i, e |-> e]

NoEntry == Entry("", <<>>)

IdleFrame(heap) ==
  [pc |-> "idle", i |-> 1, args |-> 0, kwargs |-> <<>>, ans |-> 0,
   stack |-> <<>>, gst |-> <<>>, exc |-> NoExc, counter |-> 0,
   call |-> <<>>, fcall |-> <<>>, log |-> <<>>, heap |-> heap]

\* Entering call_wrapped(*args, **kwargs): stack = []
EnterCall(m, self, args, kwargs) ==
  [IdleFrame(m.heap) EXCEPT
     !.pc = IF NumZip(self) = 0 THEN "base" ELSE "apply",
     !.args = args, !.kwargs = kwargs,
     !.call = <<[args |-> args, kwargs |-> kwargs]>>,
     !.gst = [j \in 1..NumZip(self) |-> "none"],
     !.counter = m.counter]

\* One iteration of the first loop (lines 183-186).  The loop is outside any
\* try: an exception of next(gen) leaves call_wrapped at once.
ApplyStep(m, self) ==
  LET i == m.i
      e == self.transforms[i]
      r == GenNext(e.gen, e.args, m.args, m.kwargs)
      logged == Append(m.log, Event("apply", i, e))
  IN  IF r.exc # NoExc
        THEN [m EXCEPT !.pc = "raised", !.exc = r.exc, !.gst[i] = "failed",
                       !.log = logged]
        ELSE [m EXCEPT !.args = r.args, !.kwargs = r.kwargs,
                       !.stack = Append(@, [gen |-> i, out_store |-> self.stores[i]]),
                       !.gst[i] = "suspended", !.counter = @ + 1,
                       !.i = i + 1,
                       !.pc = IF i + 1 > NumZip(self) THEN "base" ELSE "apply",
                       !.log = logged]

\* Mutant of BaseCall: an exception of f is re-raised without closing.
BaseCall_noclose(m, self) ==
  LET kw == dict_update(self.params, m.kwargs)
      r == CallF(self.f, m.args, kw)
      called == [m EXCEPT !.fcall = <<[args |-> m.args, kwargs |-> kw]>>,
                          !.log = Append(@, Event("base", 0, NoEntry))]
  IN  IF r.exc # NoExc
        THEN [called EXCEPT !.pc = "raised", !.exc = r.exc]
        ELSE [called EXCEPT !.pc = "unwind", !.ans = r.ans]

\* ans = self.f(*args, **dict(self.params, **kwargs))  (lines 189-191)
BaseCall(m, self) ==
  LET kw == dict_update(self.params, m.kwargs)
      r == CallF(self.f, m.args, kw)
      called == [m EXCEPT !.fcall = <<[args |-> m.args, kwargs |-> kw]>>,
                          !.log = Append(@, Event("base", 0, NoEntry))]
  IN  IF r.exc # NoExc
        THEN [called EXCEPT !.pc = "closing", !.exc = r.exc]
        ELSE [called EXCEPT !.pc = "unwind", !.ans = r.ans]

\* gen.close() on a suspended generator: GeneratorExit is raised at its
\* yield and it leaves its context.
Close(m, self, g) ==
  [m EXCEPT !.gst[g] = "closed", !.counter = @ - 1,
            !.log = Append(@, Event("close", g, self.transforms[g]))]

Front(q) == SubSeq(q, 1, Len(q) - 1)

Last(q) == q[Len(q)]

\* One iteration of `while stack: stack.pop()[0].close()` (197-198, 210-211)
CloseStep(m, self) ==
  Close([m EXCEPT !.stack = Front(@)], self, Last(m.stack).gen)

\* The bare `raise` after the loop (lines 199, 212)
Reraise(m) == [m EXCEPT !.pc = "raised"]

\* Mutant of UnwindStep: the stack is used as a queue (first pushed, first
\* resumed).
UnwindStep_fifo(m, self) ==
  LET top == Head(m.stack)
      e == self.transforms[top.gen]
      r == GenSend(e.gen, e.args, m.ans)
      popped == [m EXCEPT !.stack = Tail(@), !.counter = @ - 1,
                          !.log = Append(@, Event("unwind", top.gen, e))]
  IN  IF r.exc # NoExc
        THEN [popped EXCEPT !.pc = "closing", !.exc = r.exc,
                            !.gst[top.gen] = "failed"]
      ELSE IF top.out_store = None
        THEN [popped EXCEPT !.ans = r.ans, !.gst[top.gen] = "done"]
      ELSE LET w == StoreInto(m.heap[top.out_store], r.side[1]) IN
           IF w.exc # NoExc
             THEN [popped EXCEPT !.ans = r.ans, !.gst[top.gen] = "done",
                                 !.pc = "raised", !.exc = w.exc]
             ELSE [popped EXCEPT !.ans = r.ans, !.gst[top.gen] = "done",
                                 !.heap[top.out_store] = w.st,
                                 !.log = Append(@, Event("store", top.gen, e))]

\* Mutant of UnwindStep: an exception of gen.send is re-raised without
\* closing the generators left on the stack.
UnwindStep_noclose(m, self) ==
  LET top == Last(m.stack)
      e == self.transforms[top.gen]
      r == GenSend(e.gen, e.args, m.ans)
      popped == [m EXCEPT !.stack = Front(@), !.counter = @ - 1,
                          !.log = Append(@, Event("unwind", top.gen, e))]
  IN  IF r.exc # NoExc
        THEN [popped EXCEPT !.pc = "raised", !.exc = r.exc,
                            !.gst[top.gen] = "failed"]
      ELSE IF top.out_store = None
        THEN [popped EXCEPT !.ans = r.ans, !.gst[top.gen] = "done"]
      ELSE LET w == StoreInto(m.heap[top.out_store], r.side[1]) IN
           IF w.exc # NoExc
             THEN [popped EXCEPT !.ans = r.ans, !.gst[top.gen] = "done",
                                 !.pc = "raised", !.exc = w.exc]
             ELSE [popped EXCEPT !.ans = r.ans, !.gst[top.gen] = "done",
                                 !.heap[top.out_store] = w.st,
                                 !.log = Append(@, Event("store", top.gen, e))]

\* Mutant of UnwindStep: the side value is dropped instead of stored.
UnwindStep_nostore(m, self) ==
  LET top == Last(m.stack)
      e == self.transforms[top.gen]
      r == GenSend(e.gen, e.args, m.ans)
      popped == [m EXCEPT !.stack = Front(@), !.counter = @ - 1,
                          !.log = Append(@, Event("unwind", top.gen, e))]
  IN  IF r.exc # NoExc
        THEN [popped EXCEPT !.pc = "closing", !.exc = r.exc,
                            !.gst[top.gen] = "failed"]
        ELSE [popped EXCEPT !.ans = r.ans, !.gst[top.gen] = "done"]

\* Mutant of UnwindStep: the generator is resumed a second time with the
\* result of the first resumption.
UnwindStep_resend(m, self) ==
  LET top == Last(m.stack)
      e == self.transforms[top.gen]
      r1 == GenSend(e.gen, e.args, m.ans)
      r == GenSend(e.gen, e.args, r1.ans)
      popped == [m EXCEPT !.stack = Front(@), !.counter = @ - 1,
                          !.log = Append(Append(@, Event("unwind", top.gen, e)),
                                         Event("unwind", top.gen, e))]
  IN  IF r.exc # NoExc
        THEN [popped EXCEPT !.pc = "closing", !.exc = r.exc,
                            !.gst[top.gen] = "failed"]
      ELSE IF top.out_store = None
        THEN [popped EXCEPT !.ans = r.ans, !.gst[top.gen] = "done"]
      ELSE LET w == StoreInto(m.heap[top.out_store], r.side[1]) IN
           IF w.exc # NoExc
             THEN [popped EXCEPT !.ans = r.ans, !.gst[top.gen] = "done",
                                 !.pc = "raised", !.exc = w.exc]
             ELSE [popped EXCEPT !.ans = r.ans, !.gst[top.gen] = "done",
                                 !.heap[top.out_store] = w.st,
                                 !.log = Append(@, Event("store", top.gen, e))]

\* One iteration of the second loop (lines 202-215): pop, resume the
\* generator with ans, and store its side value.  The resumed generator
\* leaves its context whether it yields or raises.  out_store.store is
\* outside the try: its StoreException leaves call_wrapped at once.
UnwindStep(m, self) ==
  LET top == Last(m.stack)
      e == self.transforms[top.gen]
      r == GenSend(e.gen, e.args, m.ans)
      popped == [m EXCEPT !.stack = Front(@), !.counter = @ - 1,
                          !.log = Append(@, Event("unwind", top.gen, e))]
  IN  IF r.exc # NoExc
        THEN [popped EXCEPT !.pc = "closing", !.exc = r.exc,
                            !.gst[top.gen] = "failed"]
      ELSE IF top.out_store = None
        THEN [popped EXCEPT !.ans = r.ans, !.gst[top.gen] = "done"]
      ELSE LET w == StoreInto(m.heap[top.out_store], r.side[1]) IN
           IF w.exc # NoExc
             THEN [popped EXCEPT !.ans = r.ans, !.gst[top.gen] = "done",
                                 !.pc = "raised", !.exc = w.exc]
             ELSE [popped EXCEPT !.ans = r.ans, !.gst[top.gen] = "done",
                                 !.heap[top.out_store] = w.st,
                                 !.log = Append(@, Event("store", top.gen, e))]

\* return ans (line 217)
Return(m) == [m EXCEPT !.pc = "returned"]

\* One step of call_wrapped from frame m.
Step(m, self) ==
  CASE m.pc = "apply" -> ApplyStep(m, self)
    [] m.pc = "base" -> BaseCall(m, self)
    [] m.pc = "closing" -> IF m.stack # <<>> THEN CloseStep(m, self) ELSE Reraise(m)
    [] m.pc = "unwind" -> IF m.stack # <<>> THEN UnwindStep(m, self) ELSE Return(m)
    [] OTHER -> m

\* call_wrapped run to its end from frame m.
RECURSIVE Run(_, _)
Run(m, self) == IF m.pc \in {"returned", "raised", "idle"} THEN m ELSE Run(Step(m, self), self)

\* self.call_wrapped(*args, **kwargs) as one call
call_wrapped(m, self, args, kwargs) == Run(EnterCall(m, self, args, kwargs), self)

(***************************************************************************)
(* The memoization decorator, cache(call).  call(fun, x) is                *)
(* fun.call_wrapped(x).  fun_caches maps a base computation to its table,  *)
(* a function from keys to (ans, stores).  The configuration is            *)
(* config.jax_check_tracer_leaks and the values that enter the key:        *)
(* config.x64_enabled, config.jax_default_device, config._trace_context(). *)
(***************************************************************************)
Config(leaks, x64, device, ctx) ==
  [jax_check_tracer_leaks |-> leaks, x64_enabled |-> x64,
   jax_default_device |-> device, trace_context |-> ctx]

\* _copy_main_traces(x): the static arguments hold no MainTrace, so the copy
\* is the tree itself
copy_main_traces(x) == x

\* The key of memoized_fun (lines 335-341)
CacheKey(self, args, cfg) ==
  [transforms |-> IF cfg.jax_check_tracer_leaks
                    THEN copy_main_traces(self.transforms)
                    ELSE self.transforms,
   params |-> self.params, in_type |-> self.in_type, args |-> args,
   x64_enabled |-> cfg.x64_enabled,
   jax_default_device |-> cfg.jax_default_device,
   trace_context |-> cfg.trace_context]

\* Mutant of WrappedFun_eq: the stores are compared too.
WrappedFun_eq_stores(self, other) ==
  /\ self.f = other.f /\ self.transforms = other.transforms
  /\ self.stores = other.stores
  /\ self.params = other.params /\ self.in_type = other.in_type
  /\ self.debug_info = other.debug_info

\* WrappedFun.__eq__
WrappedFun_eq(self, other) ==
  /\ self.f = other.f /\ self.transforms = other.transforms
  /\ self.params = other.params /\ self.in_type = other.in_type
  /\ self.debug_info = other.debug_info

\* hash(v) of an integer: the integer, except that hash(-1) is -2
hash_int(v) == IF v = -1 THEN -2 ELSE v

\* WrappedFun.__hash__: the hash of the tuple (f, transforms, params,
\* in_type, debug_info).  The hash of a tuple is computed from the hashes of
\* its elements and is modelled as the tuple of them; a function hashes by
\* identity.
WrappedFun_hash(self) ==
  <<self.f,
    [j \in DOMAIN self.transforms |->
       <<self.transforms[j].gen,
         [i \in DOMAIN self.transforms[j].args |->
            hash_int(self.transforms[j].args[i])]>>],
    [j \in DOMAIN self.params |->
       <<hash_int(self.params[j][1]), hash_int(self.params[j][2])>>],
    hash_int(self.in_type), hash_int(self.debug_info)>>

AttributeError == "AttributeError"

\* The loop of populate_stores from the i-th pair of zip(self.stores, stores)
RECURSIVE PopulateFrom(_, _, _, _)
PopulateFrom(i, self_stores, stores, heap) ==
  IF i > Min(Len(self_stores), Len(stores)) THEN [heap |-> heap, exc |-> NoExc]
  ELSE IF self_stores[i] = None THEN PopulateFrom(i + 1, self_stores, stores, heap)
  ELSE IF stores[i] = None THEN [heap |-> heap, exc |-> AttributeError]
  ELSE LET r == Store_val(heap[stores[i]]) IN
       IF r.exc # NoExc THEN [heap |-> heap, exc |-> r.exc]
       ELSE LET w == StoreInto(heap[self_stores[i]], r.ret[1]) IN
            IF w.exc # NoExc THEN [heap |-> heap, exc |-> w.exc]
            ELSE PopulateFrom(i + 1, self_stores, stores,
                              [heap EXCEPT ![self_stores[i]] = w.st])

\* Mutant of populate_stores: nothing is copied.
populate_stores_nothing(self, stores, heap) == [heap |-> heap, exc |-> NoExc]

\* WrappedFun.populate_stores
populate_stores(self, stores, heap) == PopulateFrom(1, self.stores, stores, heap)

\* fun_caches.setdefault(f, {})
setdefault(caches, f) ==
  IF f \in DOMAIN caches THEN caches
  ELSE [g \in DOMAIN caches \cup {f} |-> IF g = f THEN <<>> ELSE caches[g]]

\* cache[key] = value
SetItem(table, key, value) ==
  [k \in DOMAIN table \cup {key} |-> IF k = key THEN value ELSE table[k]]

MemoResult(caches, heap, ans, exc, invoked) ==
  [caches |-> caches, heap |-> heap, ans |-> ans, exc |-> exc,
   invoked |-> invoked]

\* Mutant of memoized_fun: the outcome of a call that raised is cached too.
memoized_fun_keepfailed(caches, heap, self, x, cfg) ==
  LET caches1 == setdefault(caches, self.f)
      table == caches1[self.f]
      key == CacheKey(self, x, cfg)
  IN  IF key \in DOMAIN table
        THEN LET p == populate_stores(self, table[key].stores, heap) IN
             MemoResult(caches1, p.heap, table[key].ans, p.exc, FALSE)
        ELSE LET r == call_wrapped(IdleFrame(heap), self, x, <<>>) IN
             MemoResult(
               [caches1 EXCEPT ![self.f] =
                  SetItem(table, key, [ans |-> r.ans, stores |-> self.stores])],
               r.heap, r.ans, r.exc, TRUE)

\* memoized_fun(fun, x) (lines 333-350)
memoized_fun(caches, heap, self, x, cfg) ==
  LET caches1 == setdefault(caches, self.f)
      table == caches1[self.f]
      key == CacheKey(self, x, cfg)
  IN  IF key \in DOMAIN table
        THEN LET p == populate_stores(self, table[key].stores, heap) IN
             MemoResult(caches1, p.heap, table[key].ans, p.exc, FALSE)
        ELSE LET r == call_wrapped(IdleFrame(heap), self, x, <<>>) IN
             IF r.pc = "raised"
               THEN MemoResult(caches1, r.heap, 0, r.exc, TRUE)
               ELSE MemoResult(
                      [caches1 EXCEPT ![self.f] =
                         SetItem(table, key, [ans |-> r.ans, stores |-> self.stores])],
                      r.heap, r.ans, NoExc, TRUE)

\* Mutant of evict_function: every table is dropped.
evict_function_all(caches, f) == <<>>

\* memoized_fun.evict_function(f): fun_caches.pop(f, None)
evict_function(caches, f) == [g \in DOMAIN caches \ {f} |-> caches[g]]

\* memoized_fun.cache_clear(): fun_caches.clear()
cache_clear(caches) == <<>>

\* Mutant of cache: cache_clear is not added to cache_clearing_funs.
cache_unregistered(funs, registry, m) ==
  [funs |-> [n \in DOMAIN funs \cup {m} |-> IF n = m THEN <<>> ELSE funs[n]],
   registry |-> registry]

\* cache(call), creating the memoized function m: a new, empty fun_caches,
\* and its cache_clear is added to cache_clearing_funs.  funs maps the
\* memoized functions alive to their fun_caches, registry is the set of the
\* memoized functions whose cache_clear is in cache_clearing_funs.
cache(funs, registry, m) ==
  [funs |-> [n \in DOMAIN funs \cup {m} |-> IF n = m THEN <<>> ELSE funs[n]],
   registry |-> registry \cup {m}]

\* clear_all_caches(): every clear in cache_clearing_funs is called
clear_all_caches(funs, registry) ==
  [m \in DOMAIN funs |-> IF m \in registry THEN cache_clear(funs[m]) ELSE funs[m]]

\* The memoized function m is freed: its fun_caches goes with it and the
\* WeakSet drops the dead cache_clear.
free_memoized(funs, registry, m) ==
  [funs |-> [n \in DOMAIN funs \ {m} |-> funs[n]], registry |-> registry \ {m}]

\* The function objects that the entries of the tables of fun_caches refer
\* to: through the args of a key or the ans of a value (the static arguments,
\* the params and the side values of the model are numbers).
EntryRefs(caches) ==
  UNION {UNION {RefsOf(k.args) \cup RefsOf(caches[g][k].ans) : k \in DOMAIN caches[g]} :
           g \in DOMAIN caches}

\* Mutant of StrongKeys: fun_caches is a plain dict.
StrongKeys_dict(caches) == DOMAIN caches \cup EntryRefs(caches)

\* The function objects that fun_caches refers to strongly: those its
\* entries refer to.  Its keys are weak references (line 331).
StrongKeys(caches) == EntryRefs(caches)

\* The tables left once every base computation whose last reference is gone
\* has been freed: a function object that nothing refers to strongly and
\* that is in no reference cycle is freed at once, and the WeakKeyDictionary
\* then removes its entry, which may free what that table referred to.
RECURSIVE Sweep(_, _)
Sweep(caches, holders) ==
  LET dead == {g \in DOMAIN caches :
                 g \notin holders /\ g \notin StrongKeys(caches) /\ ~Cyclic(g)}
  IN  IF dead = {} THEN caches
      ELSE Sweep([g \in DOMAIN caches \ dead |-> caches[g]], holders)

\* The cycle collector runs: every function object that nothing refers to
\* strongly is freed, also those in a reference cycle.
RECURSIVE gc_collect(_, _)
gc_collect(caches, holders) ==
  LET dead == {g \in DOMAIN caches : g \notin holders /\ g \notin StrongKeys(caches)}
  IN  IF dead = {} THEN caches
      ELSE gc_collect([g \in DOMAIN caches \ dead |-> caches[g]], holders)

(***************************************************************************)
(* The value of the variables of a specification in the specifications    *)
(* that do not use them.                                                   *)
(***************************************************************************)
IdleStore ==
  /\ cells = [c \in CellIds |-> NewStore]
  /\ op = OpRec("init", 1, 1, <<>>, <<>>, NoExc, FALSE, <<>>)
  /\ firstVal = [c \in CellIds |-> <<>>]

IdleCall ==
  /\ fun = wrap_init("inc", NoParams)
  /\ wrapOrder = <<>>
  /\ cw = IdleFrame(<<>>)

\* What the client of the cache may still do: the number of stacks it may
\* create, over which base computations and with which transformations, and
\* the number of memoized calls it may make.
Quota(nstacks, nmemos, funs, orders) ==
  [stacks |-> nstacks, memos |-> nmemos, funs |-> funs, orders |-> orders]

MemoRec(s, x, cfg, invoked, exc, ans, prior, clean) ==
  [s |-> s, args |-> x, config |-> cfg, invoked |-> invoked, exc |-> exc,
   ans |-> ans, prior |-> prior, clean |-> clean]

IdleCache ==
  /\ stacks = <<>>
  /\ mheap = <<>>
  /\ fun_caches = <<>>
  /\ held = {}
  /\ quota = Quota(0, 0, {}, {})
  /\ memo = MemoRec(0, 0, Config(FALSE, FALSE, None, None), FALSE, NoExc, 0, <<>>, FALSE)
  /\ hist = {}

\* The keys the client expects to hit (cached), the keys whose entry was
\* dropped and by what, and the keys whose last invocation of call raised.
Book(cached, dropped, failed) ==
  [cached |-> cached, dropped |-> dropped, failed |-> failed]

IdleClient ==
  /\ memo_funs = <<>>
  /\ cache_clearing_funs = {}
  /\ book = Book({}, {}, {})
  /\ last = [name |-> "init"]

(***************************************************************************)
(* SpecCall: a WrappedFun is built by wrap_init and up to MaxWraps         *)
(* transformations, then called once; call_wrapped runs step by step.      *)
(***************************************************************************)
Keys == {1, 2}

\* A transformation to wrap: the generator, its static arguments and
\* use_eq_store.
WrapReq(gen, static, eq) == [gen |-> gen, args |-> static, eq |-> eq]

WrapReqs ==
  {WrapReq("double_args", <<>>, FALSE), WrapReq("negate_result", <<>>, FALSE),
   WrapReq("negate_result", <<>>, TRUE), WrapReq("add_static", <<1>>, FALSE),
   WrapReq("set_kwarg", <<2>>, FALSE), WrapReq("raise_apply", <<>>, FALSE),
   WrapReq("raise_unwind", <<>>, FALSE)}

WrapOrders == UNION {[1..n -> WrapReqs] : n \in 0..MaxWraps}

\* The static params given to wrap_init: None, or a dict as its items in
\* insertion order.
ParamChoices ==
  {NoParams} \cup
  {<<d>> : d \in {<<>>, <<<<1, 0>>>>, <<<<2, 0>>>>, <<<<1, 0>>, <<2, 0>>>>,
                  <<<<2, 0>>, <<1, 0>>>>}}

\* The keyword arguments of a call
KwChoices == UNION {[K -> {1}] : K \in SUBSET Keys}

\* The WrappedFun and heap obtained from stack b by one more transformation
WrapOne(b, w) ==
  IF HasAux(w.gen)
    THEN LET t == transformation_with_aux(b.heap, w.gen, b.fun, w.args, w.eq)
         IN  [fun |-> t.fun, heap |-> t.heap]
    ELSE [fun |-> transformation(w.gen, b.fun, w.args), heap |-> b.heap]

\* wrap_init(f, params) followed by the transformations of order, first to
\* last; the stores are allocated in heap
RECURSIVE Build(_, _, _, _)
Build(heap, f, params, order) ==
  IF order = <<>> THEN [fun |-> wrap_init(f, params), heap |-> heap]
  ELSE WrapOne(Build(heap, f, params, Front(order)), Last(order))

InitCall ==
  /\ wrapOrder \in WrapOrders
  /\ \E f \in BaseFuns, params \in ParamChoices :
       LET b == Build(<<>>, f, params, wrapOrder) IN
       /\ fun = b.fun
       /\ cw = IdleFrame(b.heap)
  /\ IdleStore
  /\ IdleCache
  /\ IdleClient

\* The caller calls fun.call_wrapped(x, **kw)
StartCall(x, kw) ==
  /\ cw.pc = "idle"
  /\ cw' = EnterCall(cw, fun, x, kw)
  /\ UNCHANGED <<fun, wrapOrder, storeVars, cacheVars, clientVars>>

DoApply ==
  /\ cw.pc = "apply"
  /\ cw' = ApplyStep(cw, fun)
  /\ UNCHANGED <<fun, wrapOrder, storeVars, cacheVars, clientVars>>

DoBase ==
  /\ cw.pc = "base"
  /\ cw' = BaseCall(cw, fun)
  /\ UNCHANGED <<fun, wrapOrder, storeVars, cacheVars, clientVars>>

DoClose ==
  /\ cw.pc = "closing" /\ cw.stack # <<>>
  /\ cw' = CloseStep(cw, fun)
  /\ UNCHANGED <<fun, wrapOrder, storeVars, cacheVars, clientVars>>

DoReraise ==
  /\ cw.pc = "closing" /\ cw.stack = <<>>
  /\ cw' = Reraise(cw)
  /\ UNCHANGED <<fun, wrapOrder, storeVars, cacheVars, clientVars>>

DoUnwind ==
  /\ cw.pc = "unwind" /\ cw.stack # <<>>
  /\ cw' = UnwindStep(cw, fun)
  /\ UNCHANGED <<fun, wrapOrder, storeVars, cacheVars, clientVars>>

DoReturn ==
  /\ cw.pc = "unwind" /\ cw.stack = <<>>
  /\ cw' = Return(cw)
  /\ UNCHANGED <<fun, wrapOrder, storeVars, cacheVars, clientVars>>

\* After an exception left call_wrapped with generators still on its stack,
\* they are closed when the frame is garbage collected, at some later time
\* and in no particular order.
GcClose(j) ==
  /\ cw.pc = "raised" /\ j \in DOMAIN cw.stack
  /\ cw' = Close([cw EXCEPT !.stack = SubSeq(@, 1, j - 1) \o SubSeq(@, j + 1, Len(@))],
                 fun, cw.stack[j].gen)
  /\ UNCHANGED <<fun, wrapOrder, storeVars, cacheVars, clientVars>>

NextCall ==
  \/ \E x \in 0..MaxArg, kw \in KwChoices : StartCall(x, kw)
  \/ DoApply
  \/ DoBase
  \/ DoClose
  \/ DoReraise
  \/ DoUnwind
  \/ DoReturn
  \/ \E j \in 1..(MaxWraps + 1) : GcClose(j)

SpecCall == InitCall /\ [][NextCall]_vars

(***************************************************************************)
(* SpecCache: a client creates WrappedFun objects over the base            *)
(* computations, calls the memoized function on them under some            *)
(* configuration and drops its references; a base computation that        *)
(* nothing refers to strongly is freed, and the WeakKeyDictionary then     *)
(* drops its entry.                                                        *)
(***************************************************************************)
MemoArgs == {0, 1}

\* The transformations wrapped onto the stacks of SpecCache.
CacheOrders ==
  {<<>>, <<WrapReq("negate_result", <<>>, FALSE)>>,
   <<WrapReq("negate_result", <<>>, TRUE)>>,
   <<WrapReq("negate_result", <<>>, FALSE), WrapReq("raise_unwind", <<>>, FALSE)>>}

\* The base computations of SpecCache.
CacheFuns == {"inc", "dec"}

Configs == {Config(FALSE, FALSE, None, None), Config(TRUE, TRUE, None, None)}

InitCacheWith(q) ==
  /\ stacks = <<>>
  /\ mheap = <<>>
  /\ fun_caches = <<>>
  /\ held = CacheFuns
  /\ quota = q
  /\ memo = MemoRec(0, 0, Config(FALSE, FALSE, None, None), FALSE, NoExc, 0, <<>>, FALSE)
  /\ hist = {}
  /\ IdleStore
  /\ IdleCall
  /\ IdleClient

\* SpecCache: stacks over one base computation, with every kind of slot and
\* a transformation that fails.
InitCache == InitCacheWith(Quota(MaxStacks, MaxMemos, {"inc"}, CacheOrders))

\* The side values the accessors of stack self return: per transformation,
\* <<v>>, or <<>> when it has no store or its store is empty.
AuxValues(self, heap) ==
  [i \in DOMAIN self.stores |->
     IF self.stores[i] = None THEN <<>> ELSE heap[self.stores[i]].val]

\* The earlier calls with a structurally equal stack, equal arguments and
\* the same configuration that invoked call and returned.
PriorCalls(self, x, cfg) ==
  {h \in hist : WrappedFun_eq(h.fun, self) /\ h.args = x /\ h.config = cfg}

\* Every slot of stack self is empty, or is an EqualStore that holds the
\* side value recorded by the earlier call h.
SlotsAccept(self, heap, h) ==
  \A i \in DOMAIN self.stores :
    self.stores[i] # None =>
      \/ heap[self.stores[i]].val = EMPTY_STORE_VALUE
      \/ /\ heap[self.stores[i]].cls = "EqualStore"
         /\ heap[self.stores[i]].val = h.aux[i]

\* The client builds a new WrappedFun over f.
NewStack(f, params, order) ==
  /\ quota.stacks > 0
  /\ f \in quota.funs /\ order \in quota.orders
  /\ f \in held
  /\ LET b == Build(mheap, f, params, order) IN
       /\ stacks' = Append(stacks, b.fun)
       /\ mheap' = b.heap
  /\ quota' = [quota EXCEPT !.stacks = @ - 1]
  /\ UNCHANGED <<fun_caches, held, memo, hist, storeVars, callVars, clientVars>>

\* The client calls memoized_fun(stacks[s], x) while the configuration is
\* cfg.
Memo(s, x, cfg) ==
  /\ quota.memos > 0
  /\ s \in DOMAIN stacks /\ stacks[s].f \in held
  /\ LET self == stacks[s]
         r == memoized_fun(fun_caches, mheap, self, x, cfg)
         prior == PriorCalls(self, x, cfg)
         h == CHOOSE h \in prior : TRUE
     IN  /\ fun_caches' = r.caches
         /\ mheap' = r.heap
         /\ memo' = MemoRec(s, x, cfg, r.invoked, r.exc, r.ans,
                            IF prior = {} THEN <<>> ELSE <<h>>,
                            prior # {} /\ SlotsAccept(self, mheap, h))
         /\ hist' = IF r.invoked /\ r.exc = NoExc
                      THEN hist \cup {[fun |-> self, args |-> x, config |-> cfg,
                                       ans |-> r.ans, aux |-> AuxValues(self, r.heap)]}
                      ELSE hist
  /\ quota' = [quota EXCEPT !.memos = @ - 1]
  /\ UNCHANGED <<stacks, held, storeVars, callVars, clientVars>>

\* The client drops every reference it has to the base computation f: its
\* own and the WrappedFun objects over f.  What is freed by that leaves
\* fun_caches in the same step.
Release(f) ==
  /\ f \in held
  /\ held' = held \ {f}
  /\ fun_caches' = Sweep(fun_caches, held')
  /\ hist' = {h \in hist : h.fun.f \in held' \/ h.fun.f \in DOMAIN fun_caches'}
  /\ UNCHANGED <<stacks, mheap, memo, quota, storeVars, callVars, clientVars>>

\* f is referred to from outside the cache.
ReachableOutside(f) == f \in held

\* The cycle collector runs (gc.collect(), or an automatic collection).
Collect ==
  /\ fun_caches' = gc_collect(fun_caches, held)
  /\ fun_caches' # fun_caches
  /\ hist' = {h \in hist : h.fun.f \in held \/ h.fun.f \in DOMAIN fun_caches'}
  /\ last' = [name |-> "gc", before |-> fun_caches]
  /\ UNCHANGED <<stacks, mheap, held, memo, quota, storeVars, callVars,
                 memo_funs, cache_clearing_funs, book>>

NextCache ==
  \/ \E f \in CacheFuns, order \in CacheOrders : NewStack(f, NoParams, order)
  \/ \E s \in DOMAIN stacks, x \in MemoArgs, cfg \in Configs : Memo(s, x, cfg)
  \/ \E f \in CacheFuns : Release(f)

SpecCache == InitCache /\ [][NextCache]_vars

\* The base computations of SpecGc: inc, a callable that returns itself and
\* a function in a reference cycle.
GcFuns == {"inc", "selfret", "rec"}

\* SpecGc: stacks without transformations over the base computations of
\* GcFuns; the cycle collector runs at any time.
InitGc ==
  /\ stacks = <<>>
  /\ mheap = <<>>
  /\ fun_caches = <<>>
  /\ held = GcFuns
  /\ quota = Quota(MaxStacks, MaxMemos, GcFuns, {<<>>})
  /\ memo = MemoRec(0, 0, Config(FALSE, FALSE, None, None), FALSE, NoExc, 0, <<>>, FALSE)
  /\ hist = {}
  /\ IdleStore
  /\ IdleCall
  /\ IdleClient

NextGc ==
  \/ \E f \in GcFuns : NewStack(f, NoParams, <<>>)
  \/ \E s \in DOMAIN stacks, x \in MemoArgs :
       Memo(s, x, Config(FALSE, FALSE, None, None))
  \/ \E f \in GcFuns : Release(f)
  \/ Collect

SpecGc == InitGc /\ [][NextGc]_vars

(***************************************************************************)
(* SpecClear: a client creates memoized functions with cache(), calls them *)
(* on WrappedFun objects over the base computations, and evicts and clears *)
(* their caches.  book is the client's expectation: the keys it expects    *)
(* to be answered from the cache, the keys whose entry was dropped (and by *)
(* which operation) and the keys whose last invocation of call raised.     *)
(***************************************************************************)
MaxCalls == 4    \* memoized calls made by the client of SpecClear

\* The memoized functions that cache() may create.
MemoFns == {1, 2}

\* The stacks the client of SpecClear has built: one without transformations
\* over each base computation, and one over inc with a slot and a failing
\* transformation (resumed after the slot was written).
ClearBuilt ==
  LET b1 == Build(<<>>, "inc", NoParams, <<>>)
      b2 == Build(b1.heap, "dec", NoParams, <<>>)
      b3 == Build(b2.heap, "inc", NoParams,
                  <<WrapReq("negate_result", <<>>, FALSE),
                    WrapReq("raise_unwind", <<>>, FALSE)>>)
  IN  [stacks |-> <<b1.fun, b2.fun, b3.fun>>, heap |-> b3.heap]

ClearConfig == Config(FALSE, FALSE, None, None)

\* The arguments of the memoized calls of SpecClear.
ClearArgs == {0}

\* No memoized function has been created yet.
InitClear ==
  /\ stacks = ClearBuilt.stacks
  /\ mheap = ClearBuilt.heap
  /\ fun_caches = <<>>
  /\ held = CacheFuns
  /\ quota = Quota(0, MaxCalls, CacheFuns, {})
  /\ memo = MemoRec(0, 0, Config(FALSE, FALSE, None, None), FALSE, NoExc, 0, <<>>, FALSE)
  /\ hist = {}
  /\ memo_funs = <<>>
  /\ cache_clearing_funs = {}
  /\ book = Book({}, {}, {})
  /\ last = [name |-> "init"]
  /\ IdleStore
  /\ IdleCall

\* What identifies a memoized call for the client: the memoized function,
\* the base computation, the stack's transformations, params and input
\* type, the argument and the configuration.
CallKey(m, self, x, cfg) ==
  [m |-> m, f |-> self.f, transforms |-> self.transforms, params |-> self.params,
   in_type |-> self.in_type, args |-> x, config |-> cfg]

\* The client's book after the keys in `keys` were dropped by operation `by`.
Drop(b, keys, by) ==
  Book(b.cached \ keys,
       b.dropped \cup {[key |-> k, by |-> by] : k \in b.cached \cap keys},
       b.failed)

\* The client's book without the keys of the memoized function m.
Forget(b, m) ==
  Book({k \in b.cached : k.m # m}, {d \in b.dropped : d.key.m # m},
       {k \in b.failed : k.m # m})

\* cache(call): the client creates the memoized function m, a new object
\* (no memoized function alive is m).
NewCache(m) ==
  /\ m \notin DOMAIN memo_funs
  /\ LET c == cache(memo_funs, cache_clearing_funs, m) IN
       /\ memo_funs' = c.funs
       /\ cache_clearing_funs' = c.registry
  /\ last' = [name |-> "cache", m |-> m, before |-> memo_funs]
  /\ UNCHANGED <<book, cacheVars, storeVars, callVars>>

\* The client drops the memoized function m: it becomes unreachable and is
\* freed.
FreeCache(m) ==
  /\ m \in DOMAIN memo_funs
  /\ LET c == free_memoized(memo_funs, cache_clearing_funs, m) IN
       /\ memo_funs' = c.funs
       /\ cache_clearing_funs' = c.registry
  /\ book' = Forget(book, m)
  /\ last' = [name |-> "free", m |-> m, before |-> memo_funs,
              registry |-> cache_clearing_funs]
  /\ UNCHANGED <<cacheVars, storeVars, callVars>>

\* The client calls the memoized function m on stacks[s] with argument x.
MemoCall(m, s, x) ==
  /\ quota.memos > 0
  /\ m \in DOMAIN memo_funs /\ s \in DOMAIN stacks
  /\ LET self == stacks[s]
         r == memoized_fun(memo_funs[m], mheap, self, x, ClearConfig)
         k == CallKey(m, self, x, ClearConfig)
     IN  /\ memo_funs' = [memo_funs EXCEPT ![m] = r.caches]
         /\ mheap' = r.heap
         /\ last' = [name |-> "memo", m |-> m, s |-> s, key |-> k,
                     invoked |-> r.invoked, exc |-> r.exc, ans |-> r.ans,
                     before |-> memo_funs, heap |-> mheap,
                     cachedBefore |-> k \in book.cached,
                     droppedBefore |-> {d.by : d \in {e \in book.dropped : e.key = k}},
                     failedBefore |-> k \in book.failed]
         /\ book' = IF r.invoked /\ r.exc = NoExc
                      THEN Book(book.cached \cup {k},
                                {d \in book.dropped : d.key # k},
                                book.failed \ {k})
                    ELSE IF r.invoked
                      THEN Book(book.cached, book.dropped, book.failed \cup {k})
                    ELSE book
  /\ quota' = [quota EXCEPT !.memos = @ - 1]
  /\ UNCHANGED <<stacks, fun_caches, held, memo, hist, cache_clearing_funs,
                 storeVars, callVars>>

\* memoized_fun.evict_function(f) on the memoized function m
Evict(m, f) ==
  /\ m \in DOMAIN memo_funs
  /\ memo_funs' = [memo_funs EXCEPT ![m] = evict_function(@, f)]
  /\ book' = Drop(book, {k \in book.cached : k.m = m /\ k.f = f}, "evict")
  /\ last' = [name |-> "evict", m |-> m, f |-> f, before |-> memo_funs,
              exc |-> NoExc]
  /\ UNCHANGED <<cache_clearing_funs, cacheVars, storeVars, callVars>>

\* memoized_fun.cache_clear() on the memoized function m
CacheClear(m) ==
  /\ m \in DOMAIN memo_funs
  /\ memo_funs' = [memo_funs EXCEPT ![m] = cache_clear(@)]
  /\ book' = Drop(book, {k \in book.cached : k.m = m}, "cache_clear")
  /\ last' = [name |-> "cache_clear", m |-> m, before |-> memo_funs]
  /\ UNCHANGED <<cache_clearing_funs, cacheVars, storeVars, callVars>>

\* clear_all_caches()
ClearAll ==
  /\ memo_funs' = clear_all_caches(memo_funs, cache_clearing_funs)
  /\ book' = Drop(book, book.cached, "clear_all")
  /\ last' = [name |-> "clear_all", before |-> memo_funs]
  /\ UNCHANGED <<cache_clearing_funs, cacheVars, storeVars, callVars>>

NextClear ==
  \/ \E m \in MemoFns : NewCache(m)
  \/ \E m \in MemoFns : FreeCache(m)
  \/ \E m \in MemoFns, s \in DOMAIN stacks, x \in ClearArgs : MemoCall(m, s, x)
  \/ \E m \in MemoFns, f \in CacheFuns : Evict(m, f)
  \/ \E m \in MemoFns : CacheClear(m)
  \/ ClearAll

SpecClear == InitClear /\ [][NextClear]_vars

(***************************************************************************)
(* SpecBuild: a client creates WrappedFun objects with wrap_init and       *)
(* derives new ones with transformation, transformation_with_aux, annotate *)
(* and add_debug_info.  stacks holds the objects in the order of their     *)
(* creation (an object is identified by its position), mheap the stores.   *)
(***************************************************************************)
MaxObjs == 3    \* WrappedFun objects created by the client of SpecBuild

BuildFuns == {"inc", "dec"}

\* The arguments of wrap_init: the base computation and the params (None,
\* or a dict as its items in insertion order).
BuildInits ==
  {<<"dec", NoParams>>} \cup
  {<<"inc", <<d>>>> : d \in {<<<<1, 0>>, <<2, 0>>>>, <<<<2, 0>>, <<1, 0>>>>,
                              <<<<1, -1>>>>, <<<<1, -2>>>>}}

BuildReqs ==
  {WrapReq("negate_result", <<>>, FALSE), WrapReq("negate_result", <<>>, TRUE),
   WrapReq("double_args", <<>>, FALSE)}

BuildTypes == {None} \cup WellFormedTypes \cup MalformedTypes

DebugInfos == {None, 1}

InitBuild ==
  /\ stacks = <<>>
  /\ mheap = <<>>
  /\ fun_caches = <<>>
  /\ held = {}
  /\ quota = Quota(MaxObjs, 0, BuildFuns, {})
  /\ memo = MemoRec(0, 0, Config(FALSE, FALSE, None, None), FALSE, NoExc, 0, <<>>, FALSE)
  /\ hist = {}
  /\ memo_funs = <<>>
  /\ cache_clearing_funs = {}
  /\ book = Book({}, {}, {})
  /\ last = [name |-> "init"]
  /\ IdleStore
  /\ IdleCall

\* wrap_init(f, params)
BuildInit(f, params) ==
  /\ quota.stacks > 0
  /\ stacks' = Append(stacks, wrap_init(f, params))
  /\ last' = [name |-> "wrap_init", r |-> Len(stacks) + 1, f |-> f,
              params |-> params]
  /\ quota' = [quota EXCEPT !.stacks = @ - 1]
  /\ UNCHANGED <<mheap, fun_caches, held, memo, hist, memo_funs,
                 cache_clearing_funs, book, storeVars, callVars>>

\* transformation(gen)(stacks[s], ...) or transformation_with_aux(gen)(...)
BuildWrap(s, w) ==
  /\ quota.stacks > 0
  /\ s \in DOMAIN stacks
  /\ LET b == WrapOne([fun |-> stacks[s], heap |-> mheap], w) IN
       /\ stacks' = Append(stacks, b.fun)
       /\ mheap' = b.heap
  /\ last' = [name |-> "wrap", s |-> s, r |-> Len(stacks) + 1, w |-> w,
              before |-> stacks[s]]
  /\ quota' = [quota EXCEPT !.stacks = @ - 1]
  /\ UNCHANGED <<fun_caches, held, memo, hist, memo_funs, cache_clearing_funs,
                 book, storeVars, callVars>>

\* The client's step for an operation that returned `a` on stacks[s]: a new
\* object is added to stacks, f itself or an exception adds nothing.
Derive(name, s, a) ==
  /\ a.new => quota.stacks > 0
  /\ stacks' = IF a.new THEN Append(stacks, a.fun) ELSE stacks
  /\ last' = [name |-> name, s |-> s,
              r |-> IF a.new THEN Len(stacks) + 1 ELSE s,
              exc |-> a.exc, new |-> a.new, before |-> stacks[s]]
  /\ quota' = IF a.new THEN [quota EXCEPT !.stacks = @ - 1] ELSE quota
  /\ UNCHANGED <<mheap, fun_caches, held, memo, hist, memo_funs,
                 cache_clearing_funs, book, storeVars, callVars>>

\* annotate(stacks[s], t)
BuildAnnotate(s, t) ==
  /\ s \in DOMAIN stacks
  /\ Derive("annotate", s, annotate(stacks[s], t))

\* add_debug_info(stacks[s], d)
BuildDebug(s, d) ==
  /\ s \in DOMAIN stacks
  /\ Derive("add_debug_info", s, add_debug_info(stacks[s], d))

NextBuild ==
  \/ \E a \in BuildInits : BuildInit(a[1], a[2])
  \/ \E s \in DOMAIN stacks, w \in BuildReqs : BuildWrap(s, w)
  \/ \E s \in DOMAIN stacks, t \in BuildTypes : BuildAnnotate(s, t)
  \/ \E s \in DOMAIN stacks, d \in DebugInfos : BuildDebug(s, d)

SpecBuild == InitBuild /\ [][NextBuild]_vars

(***************************************************************************)
(* SpecRecall: one WrappedFun is built and then called several times, one  *)
(* call after the other, so that a later call finds the stores as the      *)
(* earlier calls left them; call_wrapped runs step by step.                *)
(***************************************************************************)
MaxRecalls == 1  \* calls made after the first one

\* The transformations wrapped, first to last.
RecallOrders ==
  {<<WrapReq("negate_result", <<>>, FALSE)>>,
   <<WrapReq("negate_result", <<>>, FALSE), WrapReq("double_args", <<>>, FALSE)>>,
   <<WrapReq("negate_result", <<>>, TRUE), WrapReq("double_args", <<>>, FALSE)>>,
   <<WrapReq("raise_unwind", <<>>, FALSE), WrapReq("double_args", <<>>, FALSE)>>}

InitRecall ==
  /\ wrapOrder \in RecallOrders
  /\ LET b == Build(<<>>, "inc", NoParams, wrapOrder) IN
       /\ fun = b.fun
       /\ cw = IdleFrame(b.heap)
  /\ stacks = <<>>
  /\ mheap = <<>>
  /\ fun_caches = <<>>
  /\ held = {}
  /\ quota = Quota(0, MaxRecalls, {}, {})
  /\ memo = MemoRec(0, 0, Config(FALSE, FALSE, None, None), FALSE, NoExc, 0, <<>>, FALSE)
  /\ hist = {}
  /\ IdleStore
  /\ IdleClient

\* The caller calls fun.call_wrapped(x) again, after the earlier call has
\* returned or raised and its frame is gone; the stores are as that call
\* left them.
CallAgain(x) ==
  /\ cw.pc \in {"returned", "raised"} /\ cw.stack = <<>>
  /\ quota.memos > 0
  /\ quota' = [quota EXCEPT !.memos = @ - 1]
  /\ cw' = EnterCall(cw, fun, x, <<>>)
  /\ UNCHANGED <<fun, wrapOrder, storeVars, stacks, mheap, fun_caches, held,
                 memo, hist, clientVars>>

NextRecall ==
  \/ \E x \in 0..MaxArg : StartCall(x, <<>>)
  \/ \E x \in 0..MaxArg : CallAgain(x)
  \/ DoApply
  \/ DoBase
  \/ DoClose
  \/ DoReraise
  \/ DoUnwind
  \/ DoReturn
  \/ \E j \in 1..MaxWraps : GcClose(j)

SpecRecall == InitRecall /\ [][NextRecall]_vars

(***************************************************************************)
(* SpecStore: two store objects, each a Store or an EqualStore, and the    *)
(* operations a client can perform on them.                                *)
(***************************************************************************)
InitStore ==
  /\ cells \in [CellIds -> {NewStore, NewEqualStore}]
  /\ op = OpRec("init", 1, 1, <<>>, <<>>, NoExc, FALSE, <<>>)
  /\ firstVal = [c \in CellIds |-> <<>>]
  /\ IdleCall
  /\ IdleCache
  /\ IdleClient

\* cells[c].store(v)
DoStore(c, v) ==
  LET r == StoreInto(cells[c], v) IN
  /\ cells' = [cells EXCEPT ![c] = r.st]
  /\ op' = OpRec("store", c, c, <<v>>, cells[c].val, r.exc, FALSE, r.ret)
  /\ firstVal' = IF firstVal[c] = <<>>
                   THEN [firstVal EXCEPT ![c] = <<v>>] ELSE firstVal
  /\ UNCHANGED <<callVars, cacheVars, clientVars>>

\* cells[c].reset()
DoReset(c) ==
  LET r == Store_reset(cells[c]) IN
  /\ cells' = [cells EXCEPT ![c] = r.st]
  /\ op' = OpRec("reset", c, c, <<>>, cells[c].val, r.exc, FALSE, r.ret)
  /\ firstVal' = [firstVal EXCEPT ![c] = <<>>]
  /\ UNCHANGED <<callVars, cacheVars, clientVars>>

\* cells[c].val
DoRead(c) ==
  LET r == Store_val(cells[c]) IN
  /\ cells' = [cells EXCEPT ![c] = r.st]
  /\ op' = OpRec("val", c, c, <<>>, cells[c].val, r.exc, FALSE, r.ret)
  /\ UNCHANGED <<firstVal, callVars, cacheVars, clientVars>>

\* merge_linear_aux(lambda: cells[c].val, lambda: cells[d].val)
DoMerge(c, d) ==
  LET m == merge_linear_aux(Store_val(cells[c]), Store_val(cells[d])) IN
  /\ op' = OpRec("merge", c, d, <<>>, cells[c].val, m.exc, m.flag, m.ret)
  /\ UNCHANGED <<cells, firstVal, callVars, cacheVars, clientVars>>

NextStore ==
  \/ \E c \in CellIds, v \in StoreVals : DoStore(c, v)
  \/ \E c \in CellIds : DoReset(c)
  \/ \E c \in CellIds : DoRead(c)
  \/ \E c \in CellIds, d \in CellIds : DoMerge(c, d)

SpecStore == InitStore /\ [][NextStore]_vars

(***************************************************************************)
(* Properties of the stores and of merge_linear_aux (SpecStore).           *)
(***************************************************************************)

\* C7 (slot single-write).  On a plain Store: a store on an occupied store
\* raises "Store occupied" whatever the value and leaves the content as it
\* was; the content is always the first value stored since the last reset
\* (nothing when there was none); reading returns that first value, and
\* reading a store never stored since its creation or reset raises "Store
\* empty".
C7_SingleWrite ==
  /\ \A c \in CellIds : cells[c].cls = "Store" => cells[c].val = firstVal[c]
  /\ (op.name = "store" /\ cells[op.c].cls = "Store" /\ op.before # <<>>)
       => (op.exc = StoreOccupied /\ cells[op.c].val = op.before)
  /\ (op.name = "store" /\ cells[op.c].cls = "Store" /\ op.before = <<>>)
       => (op.exc = NoExc /\ cells[op.c].val = op.arg)
  /\ (op.name = "val" /\ cells[op.c].cls = "Store")
       => IF firstVal[op.c] = <<>>
            THEN op.exc = StoreEmpty
            ELSE op.exc = NoExc /\ op.ret = firstVal[op.c]

\* A second store of a different value on a plain Store was refused.
C7_Witness ==
  /\ op.name = "store" /\ cells[op.c].cls = "Store"
  /\ op.before # <<>> /\ op.arg # op.before
  /\ op.exc = StoreOccupied /\ cells[op.c].val = op.before

\* C8 (EqualStore idempotence).  On an EqualStore holding v, storing a value
\* equal to v succeeds and storing a value unequal to v raises "Store
\* occupied with not-equal value" (for values whose == has a truth value);
\* either way the content stays v, and the content is always the first
\* value stored since the last reset.
C8_EqualIdempotent ==
  /\ \A c \in CellIds : cells[c].cls = "EqualStore" => cells[c].val = firstVal[c]
  /\ (op.name = "store" /\ cells[op.c].cls = "EqualStore" /\ op.before # <<>>
        /\ ~EqRaises(op.before[1], op.arg[1]))
       => /\ cells[op.c].val = op.before
          /\ op.arg = op.before => op.exc = NoExc
          /\ op.arg # op.before => op.exc = StoreNotEqual
  /\ (op.name = "store" /\ cells[op.c].cls = "EqualStore" /\ op.before = <<>>)
       => (op.exc = NoExc /\ cells[op.c].val = op.arg)

\* An unequal second store on an EqualStore was refused as conflicting.
C8_Witness ==
  /\ op.name = "store" /\ cells[op.c].cls = "EqualStore"
  /\ op.before # <<>> /\ op.arg # op.before
  /\ ~EqRaises(op.before[1], op.arg[1])
  /\ op.exc = StoreNotEqual /\ cells[op.c].val = op.before

\* An equal second store on an EqualStore succeeded.
C8_WitnessEqual ==
  /\ op.name = "store" /\ cells[op.c].cls = "EqualStore"
  /\ op.before # <<>> /\ op.arg = op.before /\ op.exc = NoExc

\* C9 (exclusive aux merge).  merge_linear_aux(aux1, aux2) returns (True, v)
\* when only the store read by aux1 holds v, (False, v) when only the store
\* read by aux2 holds v, raises "neither store occupied" when both are empty
\* and raises "both stores occupied" when both hold a value.
C9_ExclusiveMerge ==
  op.name = "merge" =>
    LET v1 == cells[op.c].val
        v2 == cells[op.d].val
    IN  /\ (v1 # <<>> /\ v2 = <<>>) =>
              (op.exc = NoExc /\ op.flag = TRUE /\ op.ret = v1)
        /\ (v1 = <<>> /\ v2 # <<>>) =>
              (op.exc = NoExc /\ op.flag = FALSE /\ op.ret = v2)
        /\ (v1 = <<>> /\ v2 = <<>>) => op.exc = NeitherOccupied
        /\ (v1 # <<>> /\ v2 # <<>>) => op.exc = BothOccupied

\* A merge where only the second accessor had a value returned (False, v).
C9_Witness ==
  /\ op.name = "merge" /\ op.c # op.d
  /\ cells[op.c].val = <<>> /\ cells[op.d].val # <<>>
  /\ op.exc = NoExc /\ op.flag = FALSE /\ op.ret = cells[op.d].val

\* The other three occupancy combinations of a merge are reached too.
C9_WitnessFirst ==
  /\ op.name = "merge" /\ cells[op.c].val # <<>> /\ cells[op.d].val = <<>>
  /\ op.flag = TRUE /\ op.ret = cells[op.c].val

C9_WitnessNeither ==
  op.name = "merge" /\ cells[op.c].val = <<>> /\ cells[op.d].val = <<>>
    /\ op.exc = NeitherOccupied

C9_WitnessBoth ==
  op.name = "merge" /\ op.c # op.d /\ cells[op.c].val # <<>>
    /\ cells[op.d].val # <<>> /\ op.exc = BothOccupied

(***************************************************************************)
(* Properties of call_wrapped (SpecCall).                                  *)
(***************************************************************************)
RECURSIVE Reverse(_)
Reverse(q) == IF q = <<>> THEN <<>> ELSE Append(Reverse(Tail(q)), Head(q))

EntryOf(w) == Entry(w.gen, w.args)

\* The phases of a complete call for transformations wrapped in `order`:
\* apply Tn, ..., T1, then the base computation, then unwind T1, ..., Tn.
ExpectedPhases(order) ==
  [k \in 1..Len(order) |-> <<"apply", EntryOf(Reverse(order)[k])>>]
    \o <<<<"base", NoEntry>>>>
    \o [k \in 1..Len(order) |-> <<"unwind", EntryOf(order[k])>>]

\* The apply, base and unwind phases run so far, in order.
PhasesRun ==
  LET ph == SelectSeq(cw.log, LAMBDA x : x.ev \in {"apply", "base", "unwind"})
  IN  [k \in 1..Len(ph) |-> <<ph[k].ev, ph[k].e>>]

IsPrefix(p, q) == Len(p) <= Len(q) /\ p = SubSeq(q, 1, Len(p))

\* C1 (ordering law).  For transformations wrapped in order T1, ..., Tn the
\* phases run so far are always a prefix of: apply Tn, ..., apply T1, base,
\* unwind T1, ..., unwind Tn (so no unwind phase precedes the base call, and
\* an unwind phase runs only once the base computation has returned), and a
\* call that returns has run exactly these phases.
C1_OrderingLaw ==
  /\ IsPrefix(PhasesRun, ExpectedPhases(wrapOrder))
  /\ cw.pc = "returned" => PhasesRun = ExpectedPhases(wrapOrder)
  /\ \A k \in DOMAIN cw.log :
       cw.log[k].ev = "unwind" => (cw.fcall # <<>> /\ fun.f # "boom")

\* A call over two different transformations has returned.
C1_Witness ==
  /\ cw.pc = "returned" /\ Len(wrapOrder) = 2
  /\ EntryOf(wrapOrder[1]) # EntryOf(wrapOrder[2])
  /\ Len(cw.log) = 5

\* The arguments after rewriting with the transformations of `order`, last
\* wrapped first.
RECURSIVE RewriteArgs(_, _, _)
RewriteArgs(order, args, kwargs) ==
  IF order = <<>> THEN [args |-> args, kwargs |-> kwargs]
  ELSE LET t == Last(order)
           r == GenNext(t.gen, t.args, args, kwargs)
       IN  RewriteArgs(Front(order), r.args, r.kwargs)

\* The result after rewriting with the transformations of `order`, first
\* wrapped first.
RECURSIVE RewriteResult(_, _)
RewriteResult(order, ans) ==
  IF order = <<>> THEN ans
  ELSE LET t == Head(order) IN
       RewriteResult(Tail(order), GenSend(t.gen, t.args, ans).ans)

\* The manual composition: rewrite the arguments with Tn, ..., T1, call f,
\* rewrite the result with T1, ..., Tn.
Composition(f, params, order, args, kwargs) ==
  LET a == RewriteArgs(order, args, kwargs) IN
  RewriteResult(order, CallF(f, a.args, dict_update(params, a.kwargs)).ans)

\* f(x) = x + 1 wrapped with double_args and then negate_result, called on 3
Scenario ==
  /\ fun.f = "inc"
  /\ Len(wrapOrder) = 2
  /\ wrapOrder[1].gen = "double_args" /\ wrapOrder[2].gen = "negate_result"
  /\ cw.call # <<>> /\ cw.call[1].args = 3

\* C2 (composition law).  The value returned by call_wrapped equals the
\* manual composition of the transformations around f; for f(x) = x + 1
\* wrapped with double_args then negate_result, call_wrapped(3) returns -7
\* and the aux accessor returns 7.
C2_CompositionLaw ==
  cw.pc = "returned" =>
    /\ cw.ans = Composition(fun.f, fun.params, wrapOrder, cw.call[1].args,
                            cw.call[1].kwargs)
    /\ Scenario =>
         /\ cw.ans = -7
         /\ out_thunk(cw.heap, fun.stores[1]) = Outcome(cw.heap[fun.stores[1]], NoExc, <<7>>)

\* The scenario call has returned -7 with aux 7.
C2_Witness ==
  /\ cw.pc = "returned" /\ Scenario /\ cw.ans = -7
  /\ out_thunk(cw.heap, fun.stores[1]).ret = <<7>>

\* A call whose result depends on the order of the result rewriting returned.
C2_WitnessOrder ==
  /\ cw.pc = "returned" /\ Len(wrapOrder) = 2
  /\ wrapOrder[1].gen = "negate_result" /\ wrapOrder[2].gen = "add_static"

\* The base computation was called and raised.
BaseRaised == cw.fcall # <<>> /\ fun.f = "boom"

NoneSuspended == \A g \in DOMAIN cw.gst : cw.gst[g] # "suspended"

\* C3 (cleanup on base-computation failure).  When the base computation
\* raises, the exception that reaches the caller is the one it raised, and
\* by then every transformation that was suspended has been closed: none is
\* still suspended and the counter of entered contexts is back to zero.
C3_BaseFailureCleanup ==
  /\ (BaseRaised /\ cw.pc = "raised") =>
        /\ cw.exc = BaseError
        /\ NoneSuspended
        /\ \A g \in DOMAIN cw.gst : cw.gst[g] = "closed"
        /\ cw.counter = 0
  /\ BaseRaised => cw.pc \in {"closing", "raised"}

\* The base computation raised under two suspended transformations, and both
\* were closed when the exception reached the caller.
C3_Witness ==
  /\ BaseRaised /\ cw.pc = "raised" /\ cw.exc = BaseError
  /\ Len(cw.gst) = 2 /\ \A g \in DOMAIN cw.gst : cw.gst[g] = "closed"
  /\ cw.counter = 0

\* C4 (cleanup on apply-phase failure), as claimed: when the apply phase of
\* a transformation raises, no transformation is still suspended when the
\* exception reaches the caller.
C4_ApplyFailureCleanup ==
  (cw.pc = "raised" /\ cw.exc = ApplyError) =>
     (NoneSuspended /\ cw.counter = 0)

\* The position in the log of the unwind phase that raised.
FailedUnwind ==
  CHOOSE k \in DOMAIN cw.log :
    cw.log[k].ev = "unwind" /\ cw.gst[cw.log[k].i] = "failed"

\* C5 (cleanup on unwind failure).  When resuming a transformation raises,
\* that exception reaches the caller only after every transformation still
\* on the stack has been closed (none is suspended, the counter is zero),
\* and nothing is resumed after the failure: the log holds only close
\* events after the failed unwind.
C5_UnwindFailureCleanup ==
  /\ (cw.exc = UnwindError /\ cw.pc = "raised") =>
        /\ NoneSuspended
        /\ cw.counter = 0
        /\ cw.stack = <<>>
  /\ cw.exc = UnwindError =>
        /\ cw.pc \in {"closing", "raised"}
        /\ \A k \in DOMAIN cw.log :
             k > FailedUnwind =>
               (cw.log[k].ev = "close" /\ cw.gst[cw.log[k].i] = "closed")

\* Resuming the first-wrapped transformation raised, and the other one,
\* still suspended then, was closed before the exception reached the caller.
C5_Witness ==
  /\ cw.exc = UnwindError /\ cw.pc = "raised"
  /\ Len(cw.gst) = 2 /\ cw.gst[2] = "failed" /\ cw.gst[1] = "closed"
  /\ cw.counter = 0

\* The keys of the static params of fun.
ParamKeys == {fun.params[j][1] : j \in DOMAIN fun.params}

\* C13 (keyword precedence at the base call).  The base computation is called
\* with the keyword arguments produced by the apply phase together with the
\* static params: every keyword argument arrives with its call-time value,
\* also when a static param has the same key; every static param whose key
\* is no keyword argument arrives with its static value; nothing else
\* arrives, and the collision raises nothing (only a base computation that
\* raises itself makes the base call fail).
C13_KeywordPrecedence ==
  cw.fcall # <<>> =>
    LET got == cw.fcall[1].kwargs IN
    /\ DOMAIN got = DOMAIN cw.kwargs \cup ParamKeys
    /\ \A k \in DOMAIN cw.kwargs : got[k] = cw.kwargs[k]
    /\ \A j \in DOMAIN fun.params :
         fun.params[j][1] \notin DOMAIN cw.kwargs =>
           got[fun.params[j][1]] = fun.params[j][2]
    /\ cw.fcall[1].args = cw.args
    /\ fun.f # "boom" => cw.exc \notin {BaseError}

\* The base computation returned after a call where key 1 was both a static
\* param (value 0) and a keyword argument (value 1), and key 2 only a static
\* param: it received 1 for key 1 and 0 for key 2.
C13_Witness ==
  /\ cw.pc = "returned" /\ cw.fcall # <<>>
  /\ ParamKeys = {1, 2} /\ DOMAIN cw.kwargs = {1}
  /\ cw.kwargs[1] = 1 /\ cw.fcall[1].kwargs[1] = 1 /\ cw.fcall[1].kwargs[2] = 0

\* The number of events named ev of transformation i in the log.
Count(ev, i) ==
  Cardinality({k \in DOMAIN cw.log : cw.log[k].ev = ev /\ cw.log[k].i = i})

\* The side value that the transformation stored at position i emits in this
\* call: it is the one wrapped as number Len(wrapOrder) + 1 - i, and it is
\* resumed with the result of the base computation rewritten by the
\* transformations wrapped before it.
EmittedSide(i) ==
  LET k == Len(wrapOrder) + 1 - i
      t == EntryOf(wrapOrder[k])
      base == CallF(fun.f, cw.fcall[1].args, cw.fcall[1].kwargs).ans
  IN  GenSend(t.gen, t.args, RewriteResult(SubSeq(wrapOrder, 1, k - 1), base)).side

\* C16 (complete-or-fail).  A call on a stack whose slots are all empty that
\* returns has run every phase, and every slot of the stack then holds the
\* side value its transformation emitted in this call, written exactly
\* once (a transformation without slot wrote nothing); a call that raises
\* has an exception and never returns a result afterwards.
C16_CompleteOrFail ==
  /\ [](cw.pc = "returned" =>
          /\ PhasesRun = ExpectedPhases(wrapOrder)
          /\ cw.exc = NoExc
          /\ \A i \in DOMAIN fun.stores :
               IF fun.stores[i] = None
                 THEN Count("store", i) = 0
                 ELSE /\ cw.heap[fun.stores[i]].val = EmittedSide(i)
                      /\ EmittedSide(i) # <<>>
                      /\ Count("store", i) = 1)
  /\ [](cw.pc = "raised" => cw.exc # NoExc)
  /\ [][cw.pc = "raised" => cw'.pc = "raised"]_vars

\* A call over two transformations with a slot each has returned with both
\* slots written.
C16_Witness ==
  /\ cw.pc = "returned" /\ Len(fun.stores) = 2
  /\ \A i \in DOMAIN fun.stores :
       fun.stores[i] # None /\ cw.heap[fun.stores[i]].val # <<>>
  /\ cw.ans # 0

\* A call has raised after it wrote a slot, which is still occupied.
C16_WitnessPartial ==
  /\ cw.pc = "raised" /\ cw.exc = UnwindError
  /\ \E i \in DOMAIN fun.stores :
       fun.stores[i] # None /\ cw.heap[fun.stores[i]].val # <<>>

\* C17 (exactly-once protocol).  Within one call each transformation is run
\* to its suspension point at most once and resumed at most once, it is
\* resumed only after it was suspended, and the base computation is called
\* at most once; in a call that returns each has happened exactly once.
C17_ExactlyOnce ==
  /\ \A i \in 1..NumZip(fun) :
       /\ Count("apply", i) <= 1
       /\ Count("unwind", i) <= 1
       /\ cw.pc = "returned" => (Count("apply", i) = 1 /\ Count("unwind", i) = 1)
  /\ \A k \in DOMAIN cw.log :
       cw.log[k].ev = "unwind" =>
         /\ \E j \in 1..(k - 1) :
              cw.log[j].ev = "apply" /\ cw.log[j].i = cw.log[k].i
         /\ \A j \in 1..(k - 1) :
              cw.log[j].ev = "close" => cw.log[j].i # cw.log[k].i
  /\ Count("base", 0) <= 1
  /\ Len(cw.fcall) <= 1
  /\ cw.pc = "returned" => (Count("base", 0) = 1 /\ Len(cw.fcall) = 1)
  /\ \A k \in DOMAIN cw.log : cw.log[k].ev \in {"apply", "unwind", "close", "store"}
                                 => cw.log[k].i \in 1..NumZip(fun)

\* A call over two transformations has returned: two apply phases, the base
\* call and two unwind phases.
C17_Witness ==
  /\ cw.pc = "returned" /\ NumZip(fun) = 2
  /\ \A i \in 1..2 : Count("apply", i) = 1 /\ Count("unwind", i) = 1
  /\ Count("base", 0) = 1

(***************************************************************************)
(* Properties of the memoization cache (SpecCache, SpecGc).                *)
(***************************************************************************)

\* The last memoized call was answered from the cache: call was not invoked,
\* the result is the one of the earlier call h, and every accessor of the
\* stack it was made on returns the side value recorded by h.
AnsweredFrom(h) ==
  LET self == stacks[memo.s] IN
  /\ ~memo.invoked
  /\ memo.exc = NoExc
  /\ memo.ans = h.ans
  /\ \A i \in DOMAIN self.stores :
       self.stores[i] # None =>
         out_thunk(mheap, self.stores[i]) =
           Outcome(mheap[self.stores[i]], NoExc, h.aux[i])

\* C6 (cache correctness), as claimed: a memoized call that follows a call
\* with a structurally equal stack (the same object or another), equal
\* arguments and the same configuration does not invoke call, returns the
\* earlier result and leaves in every slot of its stack the side value the
\* earlier call recorded.
C6_CacheCorrectness == memo.prior # <<>> => AnsweredFrom(memo.prior[1])

\* C6, amended: the same, provided that when the second call starts every
\* slot of its stack is empty, or is an EqualStore already holding the side
\* value recorded by the earlier call.
C6_CacheCorrectnessFreshSlots ==
  (memo.prior # <<>> /\ memo.clean) => AnsweredFrom(memo.prior[1])

\* A second call on another stack object, with an empty plain Store, was
\* answered from the cache.
C6_Witness ==
  /\ memo.prior # <<>> /\ memo.clean
  /\ stacks[memo.s].stores # <<>>
  /\ stacks[memo.s].stores[1] # None
  /\ stacks[memo.s].stores # memo.prior[1].fun.stores
  /\ mheap[stacks[memo.s].stores[1]].cls = "Store"
  /\ AnsweredFrom(memo.prior[1])

\* A second call on the same stack object, whose slot is an EqualStore, was
\* answered from the cache.
C6_WitnessSameObject ==
  /\ memo.prior # <<>> /\ memo.clean
  /\ stacks[memo.s].stores # <<>>
  /\ stacks[memo.s].stores = memo.prior[1].fun.stores
  /\ AnsweredFrom(memo.prior[1])

\* Some entry of fun_caches refers to the function object f: the argument of
\* its key or its cached result is f.
ReferredByEntry(f) ==
  \E g \in DOMAIN fun_caches : \E k \in DOMAIN fun_caches[g] :
    k.args = id(f) \/ fun_caches[g][k].ans = id(f)

C10_WitnessCycle ==
  /\ last.name = "gc" /\ "rec" \in DOMAIN last.before
  /\ DOMAIN last.before["rec"] # {}
  /\ "rec" \notin DOMAIN fun_caches

\* The table of a base computation that its own cached result refers to is
\* still there after the client dropped it and the cycle collector ran.
C10_WitnessKept ==
  /\ last.name = "gc" /\ ~ReachableOutside("selfret")
  /\ "selfret" \in DOMAIN fun_caches /\ ReferredByEntry("selfret")

(***************************************************************************)
(* Properties of evict_function, cache_clear and clear_all_caches           *)
(* (SpecClear).                                                            *)
(***************************************************************************)

\* The keys cached for base computation f in the fun_caches `caches`.
KeysOf(caches, f) == IF f \in DOMAIN caches THEN DOMAIN caches[f] ELSE {}

\* C11 (evict_function).  evict_function(f) on a memoized function drops the
\* table of f and nothing else: the tables of the other base computations,
\* and every table of the other memoized functions, are as before, also when
\* f had no table (then nothing changes), and nothing is raised.  The next
\* memoized call with a key that was cached and dropped by the eviction
\* invokes call again, and a call with a key that is still cached does not.
C11_EvictFunction ==
  /\ last.name = "evict" =>
       /\ last.exc = NoExc
       /\ last.f \notin DOMAIN memo_funs[last.m]
       /\ DOMAIN memo_funs[last.m] = DOMAIN last.before[last.m] \ {last.f}
       /\ \A g \in DOMAIN memo_funs[last.m] :
            memo_funs[last.m][g] = last.before[last.m][g]
       /\ \A n \in DOMAIN memo_funs : n # last.m => memo_funs[n] = last.before[n]
       /\ DOMAIN memo_funs = DOMAIN last.before
  /\ (last.name = "memo" /\ "evict" \in last.droppedBefore) => last.invoked
  /\ (last.name = "memo" /\ last.cachedBefore) => ~last.invoked

\* A memoized call with a key that was cached and then evicted has invoked
\* call again, while the table of the other base computation is still there.
C11_Witness ==
  /\ last.name = "memo" /\ "evict" \in last.droppedBefore /\ last.invoked
  /\ \E g \in DOMAIN last.before[last.m] :
       g # last.key.f /\ DOMAIN last.before[last.m][g] # {}

\* After an eviction that dropped a table, a call on another base computation
\* with a cached key was answered from the cache.
C11_WitnessOther ==
  /\ last.name = "memo" /\ last.cachedBefore /\ ~last.invoked
  /\ \E d \in book.dropped : d.by = "evict" /\ d.key.m = last.m /\ d.key.f # last.key.f

\* An eviction of a base computation without table changed nothing.
C11_WitnessNoTable ==
  /\ last.name = "evict" /\ last.f \notin DOMAIN last.before[last.m]
  /\ memo_funs = last.before /\ DOMAIN memo_funs[last.m] # {}

\* C12 (clear_all_caches).  After clear_all_caches() the fun_caches of every
\* memoized function alive is empty; after cache_clear() on one memoized
\* function its fun_caches is empty and those of the others are as before;
\* the next memoized call with a key that was cached and dropped by either
\* invokes call again.  The memoized functions whose cache_clear is
\* registered are exactly those alive: cache() registers the new one, with
\* empty fun_caches, and a memoized function that is freed leaves the
\* registry, the fun_caches of the others being as before.
C12_ClearAllCaches ==
  /\ last.name = "clear_all" =>
       \A m \in DOMAIN memo_funs : DOMAIN memo_funs[m] = {}
  /\ last.name = "cache_clear" =>
       /\ DOMAIN memo_funs[last.m] = {}
       /\ \A n \in DOMAIN memo_funs : n # last.m => memo_funs[n] = last.before[n]
  /\ (last.name = "memo" /\ last.droppedBefore \cap {"clear_all", "cache_clear"} # {})
       => last.invoked
  /\ cache_clearing_funs = DOMAIN memo_funs
  /\ last.name = "cache" =>
       /\ last.m \notin DOMAIN last.before /\ DOMAIN memo_funs[last.m] = {}
       /\ \A n \in DOMAIN last.before : memo_funs[n] = last.before[n]
  /\ last.name = "free" =>
       /\ DOMAIN memo_funs = DOMAIN last.before \ {last.m}
       /\ cache_clearing_funs = last.registry \ {last.m}
       /\ \A n \in DOMAIN memo_funs : memo_funs[n] = last.before[n]

\* clear_all_caches() has emptied the caches of two memoized functions that
\* both held an entry.
C12_Witness ==
  /\ last.name = "clear_all"
  /\ \A m \in MemoFns :
       /\ m \in DOMAIN last.before
       /\ \E f \in DOMAIN last.before[m] : DOMAIN last.before[m][f] # {}
       /\ DOMAIN memo_funs[m] = {}

\* A memoized call with a key dropped by clear_all_caches() invoked call again.
C12_WitnessCall ==
  last.name = "memo" /\ "clear_all" \in last.droppedBefore /\ last.invoked

\* The memoized function made first was freed while the other one, which
\* holds an entry, stays registered.
C12_WitnessFreeFirst ==
  /\ last.name = "free" /\ last.m = 1 /\ 2 \in cache_clearing_funs
  /\ \E f \in DOMAIN memo_funs[2] : DOMAIN memo_funs[2][f] # {}
  /\ \E f \in DOMAIN last.before[1] : DOMAIN last.before[1][f] # {}

\* cache_clear() on one memoized function left an entry of the other one.
C12_WitnessOne ==
  /\ last.name = "cache_clear"
  /\ \E f \in DOMAIN last.before[last.m] : DOMAIN last.before[last.m][f] # {}
  /\ \E n \in DOMAIN memo_funs : \E f \in DOMAIN memo_funs[n] :
       n # last.m /\ DOMAIN memo_funs[n][f] # {}

\* C20 (a failed memoized call leaves no cache entry).  When call raises on
\* a miss, the table holds the keys it held before and not the key of the
\* call, and the exception of the memoized call is the one call_wrapped
\* raised; a memoized call is answered from the cache only when an earlier
\* call with that key returned (and its entry was not dropped since), so the
\* call that follows a failed one with an equal key invokes call again.
C20_FailedCallNotCached ==
  /\ (last.name = "memo" /\ last.invoked /\ last.exc # NoExc) =>
       LET self == stacks[last.s] IN
       /\ KeysOf(memo_funs[last.m], self.f) = KeysOf(last.before[last.m], self.f)
       /\ CacheKey(self, last.key.args, last.key.config)
            \notin KeysOf(memo_funs[last.m], self.f)
       /\ last.exc = call_wrapped(IdleFrame(last.heap), self, last.key.args, <<>>).exc
  /\ (last.name = "memo" /\ ~last.invoked) => last.cachedBefore
  /\ (last.name = "memo" /\ last.failedBefore /\ ~last.cachedBefore) => last.invoked

\* The memoized call that followed a failed one with an equal key invoked
\* call again, on a stack whose slot the failed attempt had written.
C20_Witness ==
  /\ last.name = "memo" /\ last.failedBefore /\ last.invoked
  /\ \E i \in DOMAIN stacks[last.s].stores :
       /\ stacks[last.s].stores[i] # None
       /\ last.heap[stacks[last.s].stores[i]].val # <<>>

(***************************************************************************)
(* Properties of the construction of WrappedFun objects (SpecBuild).       *)
(***************************************************************************)

\* A WrappedFun without its stores.
WithoutStores(w) == [w EXCEPT !.stores = <<>>]

\* The insertion orders of a dict with the given items.
ItemOrders(items) ==
  {[i \in DOMAIN items |-> items[p[i]]] : p \in Permutations(DOMAIN items)}

\* C14 (structural identity of stacks).  Two WrappedFun objects are equal and
\* hash equal exactly when they agree on everything but their stores (base
\* computation, transformations, params, input type, debug info), whatever
\* their stores are; equal objects hash equal; and the object that
\* wrap_init makes from a dict is equal, and hashes equal, to the one made
\* from the same items in any other insertion order.
C14_StructuralIdentity ==
  /\ \A a \in DOMAIN stacks, b \in DOMAIN stacks :
       LET A == stacks[a]
           B == stacks[b]
       IN  /\ (WrappedFun_eq(A, B) /\ WrappedFun_hash(A) = WrappedFun_hash(B))
                <=> (WithoutStores(A) = WithoutStores(B))
           /\ WrappedFun_eq(A, B) => WrappedFun_hash(A) = WrappedFun_hash(B)
  /\ (last.name = "wrap_init" /\ last.params # NoParams) =>
       \A q \in ItemOrders(last.params[1]) :
         /\ WrappedFun_eq(stacks[last.r], wrap_init(last.f, <<q>>))
         /\ WrappedFun_hash(stacks[last.r]) = WrappedFun_hash(wrap_init(last.f, <<q>>))

\* Two objects with different stores are equal.
C14_Witness ==
  \E a \in DOMAIN stacks, b \in DOMAIN stacks :
    /\ a # b /\ WrappedFun_eq(stacks[a], stacks[b])
    /\ stacks[a].stores # stacks[b].stores
    /\ stacks[a].stores # <<>> /\ stacks[a].stores[1] # None

\* wrap_init of a dict whose items were inserted in descending key order made
\* an object equal to an earlier one.
C14_WitnessOrder ==
  /\ last.name = "wrap_init" /\ last.params = <<<<<<2, 0>>, <<1, 0>>>>>>
  /\ \E a \in DOMAIN stacks : a # last.r /\ WrappedFun_eq(stacks[a], stacks[last.r])

\* Two objects that are not equal hash equal (params 1: -1 and 1: -2).
C14_WitnessCollision ==
  \E a \in DOMAIN stacks, b \in DOMAIN stacks :
    /\ ~WrappedFun_eq(stacks[a], stacks[b])
    /\ WrappedFun_hash(stacks[a]) = WrappedFun_hash(stacks[b])

\* The stores of a WrappedFun.
Slots(w) == {w.stores[i] : i \in DOMAIN w.stores} \ {None}

\* C15 (slot ownership), as claimed: no store belongs to the stores of two
\* distinct WrappedFun objects.
C15_SlotOwnership ==
  \A a \in DOMAIN stacks, b \in DOMAIN stacks :
    a # b => Slots(stacks[a]) \cap Slots(stacks[b]) = {}

\* C18 (parallel lists).  Every WrappedFun has as many stores as
\* transformations; wrap_init makes none of either; a wrap returns a new
\* object whose transforms and stores are those of the receiver with one
\* new element at the front (a new store for a transformation with
\* auxiliary output, None otherwise) and leaves the receiver as it was;
\* annotate and add_debug_info return the transforms and stores of the
\* receiver and leave it as it was.
C18_ParallelLists ==
  /\ \A s \in DOMAIN stacks : Len(stacks[s].transforms) = Len(stacks[s].stores)
  /\ last.name = "wrap_init" =>
       (stacks[last.r].transforms = <<>> /\ stacks[last.r].stores = <<>>)
  /\ last.name = "wrap" =>
       LET R == stacks[last.r] IN
       /\ last.r # last.s
       /\ stacks[last.s] = last.before
       /\ R.transforms = <<Entry(last.w.gen, last.w.args)>> \o last.before.transforms
       /\ Len(R.stores) = Len(last.before.stores) + 1
       /\ Tail(R.stores) = last.before.stores
       /\ HasAux(last.w.gen) <=> Head(R.stores) # None
       /\ Head(R.stores) \notin Slots(last.before)
  /\ last.name \in {"annotate", "add_debug_info"} =>
       /\ stacks[last.r].transforms = last.before.transforms
       /\ stacks[last.r].stores = last.before.stores
       /\ stacks[last.s] = last.before

\* A transformation with auxiliary output was wrapped onto an object that
\* had one transformation already.
C18_Witness ==
  /\ last.name = "wrap" /\ HasAux(last.w.gen)
  /\ Len(last.before.transforms) = 1
  /\ Len(stacks[last.r].transforms) = 2 /\ Len(stacks[last.r].stores) = 2

\* annotate returned a new object with the transforms and stores of the
\* receiver.
C18_WitnessAnnotate ==
  /\ last.name = "annotate" /\ last.new /\ last.r # last.s
  /\ stacks[last.r].stores # <<>>

(***************************************************************************)
(* Properties of repeated calls (SpecRecall).                              *)
(***************************************************************************)

\* C19 (slot conflict during unwind), as claimed: when storing a side value
\* raises StoreException during the unwind, no transformation is still
\* suspended when the exception reaches the caller.
C19_SlotConflictCleanup ==
  (cw.pc = "raised" /\ cw.exc \in StoreException) =>
     (NoneSuspended /\ cw.counter = 0)

====
